---------------------------- MODULE Spec2Model ----------------------------
(***************************************************************************)
(* ApartmentScraperClient (examples/client.py): a blocking REST client.    *)
(*                                                                         *)
(* One call of one client operation is modelled per behaviour.  The remote *)
(* service and the wall clock are the environment: the job's status moves  *)
(* through its lifecycle on its own (ServerStep), the clock advances on    *)
(* its own (Tick), and every HTTP request either succeeds with a response  *)
(* of the documented shape or fails (non-2xx status or transport error).   *)
(* Time is counted in whole seconds and never runs backwards.              *)
(*                                                                         *)
(* Python strings that the claims inspect (error texts and messages) are   *)
(* sequences of one-character strings, so that an f-string is a real       *)
(* concatenation and "carries X" is a real substring test.                 *)
(***************************************************************************)
EXTENDS Integers, Sequences, FiniteSets, TLC

(* ------------------------------ bounds -------------------------------- *)

\* Largest timeout (seconds) passed to poll_until_complete directly.
MaxTimeout == 3
\* Largest polling interval, in clock steps.
MaxInterval == 2
\* How long (seconds) the caller may wait before making the call.
MaxStartDelay == 1
\* Counters of polls and sleeps stop counting here (they saturate).
CountCap == 5
\* Clock steps that make up the default timeout inside scrape_and_wait.
WrapTicks == 3

(* ------------------------- program constants -------------------------- *)

\* poll_until_complete(..., timeout: int = 300)
DefaultTimeout == 300
\* ScrapeRequest.max_pages: int = 5
DefaultMaxPages == 5

(* --------------------------- Python values ---------------------------- *)

None == [tag |-> "None"]
Str(s) == [tag |-> "str", chars |-> s]
Dict(kv) == [tag |-> "dict", items |-> kv]
List(s) == [tag |-> "list", items |-> s]

\* Python truthiness of an Optional[Dict]: None and {} are both falsy.
Truthy(v) == v.tag # "None" /\ v.items # {}

NoneText == <<"N", "o", "n", "e">>
DigitChars == <<"0", "1", "2", "3", "4", "5", "6", "7", "8", "9">>

RECURSIVE NatText(_)
\* str(n) for n >= 0.
NatText(n) ==
    IF n < 10 THEN <<DigitChars[n + 1]>>
    ELSE NatText(n \div 10) \o <<DigitChars[(n % 10) + 1]>>

\* str(n) for an int.
IntText(n) == IF n < 0 THEN <<"-">> \o NatText(0 - n) ELSE NatText(n)

\* What an f-string field {v} renders for an Optional[str].
PyFormat(v) == IF v.tag = "None" THEN NoneText ELSE v.chars

\* x occurs in s as a contiguous run of characters (Python's `x in s`).
Contains(s, x) ==
    \E i \in 1..(Len(s) + 1) :
        /\ i + Len(x) - 1 <= Len(s)
        /\ SubSeq(s, i, i + Len(x) - 1) = x

(* ------------------------------ inputs -------------------------------- *)

JobIds == {"j1", "j2"}
Statuses == {"pending", "processing", "completed", "failed", "cancelled"}
Terminal == {"completed", "failed", "cancelled"}

JobWasCancelled ==
    <<"J", "o", "b", " ", "w", "a", "s", " ",
      "c", "a", "n", "c", "e", "l", "l", "e", "d">>

\* Error texts the server may report.
ErrTexts == {<<"b", "o", "o", "m">>, <<"J", "o", "b">>, JobWasCancelled}
ErrOpts == {None} \cup {Str(x) : x \in ErrTexts}

FilterOpts == {None, Dict({}), Dict({<<"minPrice", 1000>>})}
Requests ==
    [city : {"atlanta"}, state : {"ga"}, filters : FilterOpts,
     max_pages : {2, DefaultMaxPages}]
NoRequest ==
    [city |-> "", state |-> "", filters |-> None, max_pages |-> 0]

\* Decoded bodies of GET /api/scrape/results/{jobId}.
Payloads ==
    {[tag |-> "dict", results |-> List(r), total |-> Len(r)] :
        r \in {<<>>, <<"l1">>, <<"l1", "l2">>}}

\* A request succeeds ("ok"), gets a non-2xx answer (raise_for_status raises
\* HTTPError) or fails in transport (the session raises ConnectionError).
HttpErrors == {"HTTPError", "ConnectionError"}
HttpResults == {"ok"} \cup HttpErrors

Operations ==
    {"start_scrape", "get_status", "get_results", "cancel_job",
     "poll_until_complete", "scrape_and_wait"}

(* ------------------------------ results ------------------------------- *)

NoOutcome == [kind |-> "none"]
Return(v) == [kind |-> "return", value |-> v]
Raise(t, m) == [kind |-> "raise", type |-> t, msg |-> m]

NoStatus == [tag |-> "none"]

VARIABLES
    now,          \* time.time(), in seconds
    job,          \* the remote job's status, as the server holds it
    op,           \* the operation called ("none" before the call)
    pc,           \* where the call is
    request,      \* argument: the ScrapeRequest
    job_id,       \* argument / local: the job id
    interval,     \* argument: polling interval
    timeout,      \* argument: timeout
    start_time,   \* local of poll_until_complete
    wakeAt,       \* when the running time.sleep may return
    status,       \* the JobStatus built by the last get_status
    payload,      \* the body decoded by the last get_results
    started,      \* the body decoded by start_scrape
    sentBody,     \* the JSON body POSTed by start_scrape
    statusIds,    \* job ids named in status requests
    resultsIds,   \* job ids named in results requests
    polls,        \* status requests sent (saturating)
    sleeps,       \* time.sleep calls made (saturating)
    sleepArg,     \* argument of the last time.sleep call
    resultsReqs,  \* results requests sent
    startReqs,    \* start requests sent
    cancelReqs,   \* cancel requests sent
    httpFailed,   \* a request has failed
    termInTime,   \* the job was terminal at a moment before the timeout elapsed
    outcome       \* how the call ended

vars ==
    <<now, job, op, pc, request, job_id, interval, timeout, start_time,
      wakeAt, status, payload, started, sentBody, statusIds, resultsIds,
      polls, sleeps, sleepArg, resultsReqs, startReqs, cancelReqs,
      httpFailed, termInTime, outcome>>

args == <<op, request, job_id, interval, timeout>>
pollLocals == <<start_time, wakeAt, status, payload>>
traffic ==
    <<sentBody, statusIds, resultsIds, polls, sleeps, sleepArg,
      resultsReqs, startReqs, cancelReqs, httpFailed>>

Bump(n) == IF n < CountCap THEN n + 1 ELSE n

Init ==
    /\ now = 0
    /\ job \in Statuses
    /\ op = "none"
    /\ pc = "idle"
    /\ request = NoRequest
    /\ job_id = "j1"
    /\ interval = 0
    /\ timeout = 0
    /\ start_time = 0
    /\ wakeAt = 0
    /\ status = NoStatus
    /\ payload = None
    /\ started = None
    /\ sentBody = None
    /\ statusIds = {}
    /\ resultsIds = {}
    /\ polls = 0
    /\ sleeps = 0
    /\ sleepArg = 0
    /\ resultsReqs = 0
    /\ startReqs = 0
    /\ cancelReqs = 0
    /\ httpFailed = FALSE
    /\ termInTime = FALSE
    /\ outcome = NoOutcome


(* ------------------------- pure parts of the code --------------------- *)

\* start_scrape: the JSON body.  `if request.filters:` tests truthiness.
Payload(req) ==
    IF Truthy(req.filters)
    THEN [city |-> req.city, state |-> req.state,
          maxPages |-> req.max_pages, filters |-> req.filters]
    ELSE [city |-> req.city, state |-> req.state,
          maxPages |-> req.max_pages]

Progress == [currentPage |-> 1, totalPages |-> 2, listingsScraped |-> 3]

\* The decoded body of GET /api/scrape/status/{jobId}: `error` is present
\* only when the server reports one, `completedAt` only for a finished job.
StatusData(j, s, e) ==
    [jobId |-> j, status |-> s, progress |-> Progress,
     createdAt |-> "t0", updatedAt |-> "t1"]
    @@ (IF e = None THEN <<>> ELSE [error |-> e])
    @@ (IF s = "completed" THEN [completedAt |-> Str(<<"t", "2">>)] ELSE <<>>)

\* dict.get(k): None for a missing key.
Get(d, k) == IF k \in DOMAIN d THEN d[k] ELSE None

\* get_status: the JobStatus built from the decoded body.
JobStatus(data) ==
    [job_id |-> data["jobId"],
     status |-> data["status"],
     progress |-> data["progress"],
     created_at |-> data["createdAt"],
     updated_at |-> data["updatedAt"],
     completed_at |-> Get(data, "completedAt"),
     error |-> Get(data, "error")]

\* Variant: the error text is not interpolated into the message.
FailedMessageNoText(err) ==
    <<"J", "o", "b", " ", "f", "a", "i", "l", "e", "d">>

\* f'Job failed: {status.error}'
FailedMessage(err) ==
    <<"J", "o", "b", " ", "f", "a", "i", "l", "e", "d", ":", " ">>
    \o PyFormat(err)

\* Variant: the cancelled branch raises what the failed branch raises for a
\* job without an error text.
CancelledErrorAsFailed == Raise("RuntimeError", FailedMessage(None))

\* raise RuntimeError('Job was cancelled')
CancelledError == Raise("RuntimeError", JobWasCancelled)

\* f'Job did not complete within {timeout} seconds'
TimeoutMessage(t) ==
    <<"J", "o", "b", " ", "d", "i", "d", " ", "n", "o", "t", " ",
      "c", "o", "m", "p", "l", "e", "t", "e", " ",
      "w", "i", "t", "h", "i", "n", " ">>
    \o IntText(t)
    \o <<" ", "s", "e", "c", "o", "n", "d", "s">>

\* Variant: the raise after the loop is missing, so the function falls off
\* its end and returns None.
LoopExitSilent(to) == Return(None)

\* raise TimeoutError(...) after the loop.
LoopExit(to) == Raise("TimeoutError", TimeoutMessage(to))

\* Variant: the elapsed time is measured from the current iteration.
KeepPollingNoStart(t, st, to) == t - t < to

\* Variant: the loop runs while the elapsed time is at most the timeout.
KeepPollingInclusive(t, st, to) == t - st <= to

\* The loop condition: time.time() - start_time < timeout.
KeepPolling(t, st, to) == t - st < to

\* Variant: the success status is compared with a misspelt 'complete', so a
\* completed job is treated like one still running.
AfterStatusMisspelt(st) ==
    IF st.status = "complete"
    THEN [pc |-> "results", outcome |-> NoOutcome]
    ELSE IF st.status = "failed"
    THEN [pc |-> "done",
          outcome |-> Raise("RuntimeError", FailedMessage(st.error))]
    ELSE IF st.status = "cancelled"
    THEN [pc |-> "done", outcome |-> CancelledError]
    ELSE [pc |-> "sleep", outcome |-> NoOutcome]

\* Variant: 'cancelled' is handled by the branch for 'failed'.
AfterStatusMerged(st) ==
    IF st.status = "completed"
    THEN [pc |-> "results", outcome |-> NoOutcome]
    ELSE IF st.status \in {"failed", "cancelled"}
    THEN [pc |-> "done",
          outcome |-> Raise("RuntimeError", FailedMessage(st.error))]
    ELSE [pc |-> "sleep", outcome |-> NoOutcome]

\* What poll_until_complete does with a status it has fetched: the next
\* position and, when the call ends there, how it ends.
AfterStatus(st) ==
    IF st.status = "completed"
    THEN [pc |-> "results", outcome |-> NoOutcome]
    ELSE IF st.status = "failed"
    THEN [pc |-> "done",
          outcome |-> Raise("RuntimeError", FailedMessage(st.error))]
    ELSE IF st.status = "cancelled"
    THEN [pc |-> "done", outcome |-> CancelledError]
    ELSE [pc |-> "sleep", outcome |-> NoOutcome]

\* Variant: a failed request is swallowed and the loop tries again after
\* its sleep.
OnRequestFailureRetry(r) == [pc |-> "sleep", outcome |-> NoOutcome]

\* A failed request: the session call or raise_for_status raises, and
\* nothing in the client catches it.
OnRequestFailure(r) == [pc |-> "done", outcome |-> Raise(r, <<>>)]

\* Variant: scrape_and_wait returns the whole results payload.
WrapResultWhole(p) == p

\* scrape_and_wait: return results['results'].
WrapResult(p) == p.results

(* ---------------------------- environment ----------------------------- *)

\* The call is inside poll_until_complete.
InPoll ==
    /\ op \in {"poll_until_complete", "scrape_and_wait"}
    /\ pc \in {"loop", "poll", "sleep", "sleeping", "results"}

\* Length of one clock step.  Inside scrape_and_wait, whose timeout is the
\* default 300 s, the clock is observed every 300/WrapTicks seconds.
Quantum ==
    IF op = "scrape_and_wait" THEN DefaultTimeout \div WrapTicks ELSE 1

Intervals == 0..MaxInterval
Timeouts == (0 - 1)..MaxTimeout
WrapIntervals == {k * (DefaultTimeout \div WrapTicks) : k \in 0..MaxInterval}

\* Error field the server attaches to a status of s.
ErrFor(s) == IF s \in {"failed", "cancelled"} THEN ErrOpts ELSE {None}

\* Time passes before the caller makes the call.
Delay ==
    /\ pc = "idle"
    /\ now < MaxStartDelay
    /\ now' = now + 1
    /\ UNCHANGED <<job, args, pc, pollLocals, started, traffic, termInTime,
                   outcome>>

\* Time passes during the call, while it blocks in a status request or in
\* time.sleep, which returns when its interval is over.  The clock is
\* followed until the timeout has elapsed; later readings change nothing.
Tick ==
    /\ InPoll
    /\ IF pc = "sleeping" THEN now < wakeAt
       ELSE pc = "poll" /\ now < start_time + timeout
    /\ now' = now + Quantum
    /\ UNCHANGED <<job, args, pc, pollLocals, started, traffic, termInTime,
                   outcome>>

\* The remote job moves on by itself; a terminal status is final.
ServerStep ==
    /\ pc \notin {"idle", "done"}
    /\ job \notin Terminal
    /\ \E s \in Statuses \ {job, "pending"} :
        /\ job' = s
        /\ termInTime' =
             (termInTime \/ (s \in Terminal /\ InPoll /\ pc # "results"
                             /\ now - start_time < timeout))
    /\ UNCHANGED <<now, args, pc, pollLocals, started, traffic, outcome>>

(* ------------------------------- calls -------------------------------- *)

\* The caller invokes one operation of the client.
Call ==
    /\ pc = "idle"
    /\ \E o \in Operations :
        /\ op' = o
        /\ request' \in (IF o \in {"start_scrape", "scrape_and_wait"}
                         THEN Requests ELSE {NoRequest})
        /\ job_id' \in (IF o \in {"start_scrape", "scrape_and_wait"}
                        THEN {job_id} ELSE JobIds)
        /\ interval' \in (IF o = "poll_until_complete" THEN Intervals
                          ELSE IF o = "scrape_and_wait" THEN WrapIntervals
                          ELSE {interval})
        /\ timeout' \in (IF o = "poll_until_complete" THEN Timeouts
                         ELSE IF o = "scrape_and_wait" THEN {DefaultTimeout}
                         ELSE {timeout})
        /\ pc' = CASE o = "start_scrape" -> "start"
                   [] o = "scrape_and_wait" -> "start"
                   [] o = "get_status" -> "poll"
                   [] o = "get_results" -> "results"
                   [] o = "cancel_job" -> "cancel"
                   [] o = "poll_until_complete" -> "loop"
        \* poll_until_complete: start_time = time.time()
        /\ start_time' = now
        /\ termInTime' = (o = "poll_until_complete" /\ job \in Terminal
                          /\ 0 < timeout')
    /\ UNCHANGED <<now, job, wakeAt, status, payload, started, traffic,
                   outcome>>

\* start_scrape, alone or as the first line of scrape_and_wait, which then
\* enters poll_until_complete(result['jobId'], poll_interval).
start_scrape ==
    /\ pc = "start"
    /\ sentBody' = Payload(request)
    /\ startReqs' = startReqs + 1
    /\ \E r \in HttpResults, j \in JobIds :
        IF r # "ok"
        THEN /\ httpFailed' = TRUE
             /\ pc' = OnRequestFailure(r).pc
             /\ outcome' = OnRequestFailure(r).outcome
             /\ UNCHANGED <<job, job_id, started, start_time>>
        ELSE /\ started' = [tag |-> "dict", jobId |-> j, status |-> "pending"]
             /\ job' = "pending"
             /\ UNCHANGED httpFailed
             /\ IF op = "start_scrape"
                THEN /\ pc' = "done"
                     /\ outcome' = Return(started')
                     /\ UNCHANGED <<job_id, start_time>>
                ELSE /\ job_id' = started'.jobId
                     /\ start_time' = now
                     /\ pc' = "loop"
                     /\ UNCHANGED outcome
    /\ UNCHANGED <<now, op, request, interval, timeout, wakeAt, status,
                   payload, statusIds, resultsIds, polls, sleeps, sleepArg,
                   resultsReqs, cancelReqs, termInTime>>

\* cancel_job
cancel_job ==
    /\ pc = "cancel"
    /\ cancelReqs' = cancelReqs + 1
    /\ pc' = "done"
    /\ \E r \in HttpResults :
        IF r # "ok"
        THEN /\ httpFailed' = TRUE
             /\ outcome' = OnRequestFailure(r).outcome
             /\ UNCHANGED job
        ELSE /\ outcome' = Return(Dict({<<"message", "Job cancelled">>}))
             /\ job' = (IF job \in Terminal THEN job ELSE "cancelled")
             /\ UNCHANGED httpFailed
    /\ UNCHANGED <<now, args, pollLocals, started, sentBody, statusIds,
                   resultsIds, polls, sleeps, sleepArg, resultsReqs,
                   startReqs, termInTime>>

\* The while condition of poll_until_complete, and the raise after the loop.
LoopCheck ==
    /\ pc = "loop"
    /\ IF KeepPolling(now, start_time, timeout)
       THEN /\ pc' = "poll"
            /\ UNCHANGED outcome
       ELSE /\ pc' = "done"
            /\ outcome' = LoopExit(timeout)
    /\ UNCHANGED <<now, job, args, pollLocals, started, traffic, termInTime>>

\* get_status, alone or inside the loop, where the branches on the status
\* follow it.
get_status ==
    /\ pc = "poll"
    /\ statusIds' = statusIds \cup {job_id}
    /\ polls' = Bump(polls)
    /\ \E r \in HttpResults, e \in ErrFor(job) :
        IF r # "ok"
        THEN /\ httpFailed' = TRUE
             /\ pc' = OnRequestFailure(r).pc
             /\ outcome' = OnRequestFailure(r).outcome
             /\ UNCHANGED status
        ELSE /\ status' = JobStatus(StatusData(job_id, job, e))
             /\ UNCHANGED httpFailed
             /\ IF op = "get_status"
                THEN /\ pc' = "done"
                     /\ outcome' = Return(status')
                ELSE /\ pc' = AfterStatus(status').pc
                     /\ outcome' = AfterStatus(status').outcome
    /\ UNCHANGED <<now, job, args, start_time, wakeAt, payload, started,
                   sentBody, resultsIds, sleeps, sleepArg, resultsReqs,
                   startReqs, cancelReqs, termInTime>>

\* time.sleep(interval) is called.
Sleep ==
    /\ pc = "sleep"
    /\ sleeps' = Bump(sleeps)
    /\ sleepArg' = interval
    /\ wakeAt' = now + interval
    /\ pc' = "sleeping"
    /\ UNCHANGED <<now, job, args, start_time, status, payload, started,
                   sentBody, statusIds, resultsIds, polls, resultsReqs,
                   startReqs, cancelReqs, httpFailed, termInTime, outcome>>

\* time.sleep returns, no earlier than after `interval` seconds.
Wake ==
    /\ pc = "sleeping"
    /\ now >= wakeAt
    /\ pc' = "loop"
    /\ UNCHANGED <<now, job, args, pollLocals, started, traffic, termInTime,
                   outcome>>

\* get_results, alone or as the return of poll_until_complete; inside
\* scrape_and_wait the caller then takes results['results'].
get_results ==
    /\ pc = "results"
    /\ resultsIds' = resultsIds \cup {job_id}
    /\ resultsReqs' = resultsReqs + 1
    /\ pc' = "done"
    /\ \E r \in HttpResults, p \in Payloads :
        IF r # "ok"
        THEN /\ httpFailed' = TRUE
             /\ outcome' = OnRequestFailure(r).outcome
             /\ UNCHANGED payload
        ELSE /\ payload' = p
             /\ outcome' = Return(IF op = "scrape_and_wait"
                                  THEN WrapResult(p) ELSE p)
             /\ UNCHANGED httpFailed
    /\ UNCHANGED <<now, job, args, start_time, wakeAt, status, started,
                   sentBody, statusIds, polls, sleeps, sleepArg, startReqs,
                   cancelReqs, termInTime>>

ClientStep ==
    \/ start_scrape
    \/ cancel_job
    \/ LoopCheck
    \/ get_status
    \/ Sleep
    \/ Wake
    \/ get_results

Next ==
    \/ Delay
    \/ Tick
    \/ ServerStep
    \/ Call
    \/ ClientStep

Spec == Init /\ [][Next]_vars

\* The client runs (its thread is scheduled), and the clock advances: of
\* infinitely many blocking calls, some take time.
LiveSpec == Spec /\ WF_vars(ClientStep) /\ SF_vars(Tick)


(* ------------------------------- claims ------------------------------- *)

\* The call runs, or ran, the polling loop.
Polling == op \in {"poll_until_complete", "scrape_and_wait"}

\* The last status fetched was s.
Saw(s) == status # NoStatus /\ status.status = s

TimedOut ==
    outcome = Raise("TimeoutError", TimeoutMessage(timeout))

Ceil(a, b) == (a + b - 1) \div b

\* C1 (as claimed): when the job was completed, failed or cancelled at some
\* moment before `timeout` seconds had passed since the call began, and no
\* request failed, the call does not end with TimeoutError.
C1_TimeoutOnlyIfNeverTerminal ==
    (Polling /\ pc = "done" /\ termInTime /\ ~httpFailed)
        => ~(outcome.kind = "raise" /\ outcome.type = "TimeoutError")

\* C2: a polling loop that has been entered ends, and when no request
\* failed and no terminal status was fetched it ends by raising
\* TimeoutError, never by returning; this for every interval >= 0,
\* interval 0 included.
C2_TimesOutWhenNeverTerminal ==
    /\ [](  (Polling /\ pc = "done" /\ ~httpFailed
              /\ (status = NoStatus \/ status.status \notin Terminal))
          => TimedOut)
    /\ ((Polling /\ pc = "loop") ~> (pc = "done"))

\* A call with interval 0 and a positive timeout that polled more than once,
\* only ever saw a running job, and timed out.
C2_Witness ==
    /\ op = "poll_until_complete"
    /\ interval = 0
    /\ timeout > 0
    /\ polls >= 2
    /\ ~httpFailed
    /\ Saw("processing")
    /\ pc = "done"
    /\ TimedOut

\* C3: results are requested only after 'completed' was fetched, at most
\* once and for the polled job id; once 'completed' has been fetched the
\* call only requests the results and ends, returning that payload
\* unchanged, with no further status request and no sleep.
C3_CompletedReturnsAtOnce ==
    /\ [](Polling =>
            /\ resultsReqs <= 1
            /\ (resultsReqs = 1 =>
                    Saw("completed") /\ resultsIds = {job_id}
                    /\ statusIds = {job_id})
            /\ (Saw("completed") => pc \in {"results", "done"})
            /\ ((Saw("completed") /\ pc = "done") => resultsReqs = 1)
            /\ ((Saw("completed") /\ pc = "done" /\ ~httpFailed
                 /\ op = "poll_until_complete")
                    => outcome = Return(payload) /\ payload \in Payloads))
    /\ [][(Polling /\ Saw("completed"))
            => UNCHANGED <<polls, sleeps, statusIds, sleepArg>>]_vars

\* A poll that slept, then fetched 'completed', requested the results once
\* and returned a non-empty payload.
C3_Witness ==
    /\ op = "poll_until_complete"
    /\ pc = "done"
    /\ Saw("completed")
    /\ polls >= 2
    /\ sleeps >= 1
    /\ resultsReqs = 1
    /\ outcome.kind = "return"
    /\ outcome.value.total = 2

\* C4: once 'failed' has been fetched the call has ended with a
\* RuntimeError whose message contains the error text of that status, for
\* every text the server reports; no results were requested, and (the call
\* being over) nothing is polled or slept afterwards.
C4_FailedCarriesText ==
    (Polling /\ Saw("failed")) =>
        /\ pc = "done"
        /\ outcome.kind = "raise"
        /\ outcome.type = "RuntimeError"
        /\ (status.error.tag = "str"
                => Contains(outcome.msg, status.error.chars))
        /\ resultsReqs = 0
        /\ (sleeps < polls \/ polls = CountCap)

\* A poll that fetched 'failed' with error text "boom".
C4_Witness ==
    /\ op = "poll_until_complete"
    /\ pc = "done"
    /\ Saw("failed")
    /\ status.error = Str(<<"b", "o", "o", "m">>)
    /\ outcome.kind = "raise"
    /\ polls >= 2

\* C5: a fetched 'cancelled' ends the call with an error that is neither
\* what a 'failed' status yields, whatever its error text, nor the timeout
\* error.
C5_CancelledDistinct ==
    (Polling /\ Saw("cancelled")) =>
        /\ pc = "done"
        /\ outcome.kind = "raise"
        /\ \A e \in ErrOpts :
               outcome # Raise("RuntimeError", FailedMessage(e))
        /\ \A t \in Timeouts \cup {DefaultTimeout} :
               outcome # Raise("TimeoutError", TimeoutMessage(t))

\* A poll that fetched 'cancelled' whose error text is "Job was cancelled".
C5_Witness ==
    /\ op = "poll_until_complete"
    /\ pc = "done"
    /\ Saw("cancelled")
    /\ status.error = Str(JobWasCancelled)
    /\ outcome.kind = "raise"

\* C6 (as claimed): when 'cancelled' is fetched with an error text X, the
\* raised error carries X.
C6_CancelledCarriesText ==
    (Polling /\ Saw("cancelled") /\ status.error.tag = "str") =>
        /\ outcome.kind = "raise"
        /\ Contains(outcome.msg, status.error.chars)

\* C6 (amended): 'failed' and 'cancelled' both end the call with a
\* RuntimeError; for 'failed' the message carries the server's error text,
\* for 'cancelled' it is the fixed text 'Job was cancelled' whatever the
\* error field holds.
C6_FailedTextCancelledFixed ==
    /\ (Polling /\ Saw("failed")) =>
        /\ outcome.kind = "raise"
        /\ outcome.type = "RuntimeError"
        /\ (status.error.tag = "str" =>
                /\ Contains(outcome.msg, status.error.chars)
                /\ Len(outcome.msg) > Len(status.error.chars))
    /\ (Polling /\ Saw("cancelled")) =>
        outcome = Raise("RuntimeError", JobWasCancelled)

\* A poll that fetched 'cancelled' with error text "boom", which the raised
\* message does not contain.
C6_Witness ==
    /\ Polling
    /\ pc = "done"
    /\ Saw("cancelled")
    /\ status.error = Str(<<"b", "o", "o", "m">>)
    /\ outcome.kind = "raise"
    /\ ~Contains(outcome.msg, <<"b", "o", "o", "m">>)

\* C7 (as claimed): the body POSTed by start_scrape has city, state and
\* maxPages from the request, and has filters, equal to the request's, if
\* and only if the request's filters is not None.
C7_FiltersSentIffPresent ==
    startReqs > 0 =>
        /\ DOMAIN sentBody =
             {"city", "state", "maxPages"}
             \cup (IF request.filters # None THEN {"filters"} ELSE {})
        /\ sentBody.city = request.city
        /\ sentBody.state = request.state
        /\ sentBody.maxPages = request.max_pages
        /\ (request.filters # None => sentBody.filters = request.filters)

\* C8: once a request has failed the operation is over, having raised the
\* HTTP library's error (never TimeoutError, never a value), and it sends
\* no further request and makes no sleep.
C8_NoRetries ==
    /\ [](httpFailed =>
            /\ pc = "done"
            /\ outcome.kind = "raise"
            /\ outcome.type \in HttpErrors)
    /\ [][httpFailed =>
            UNCHANGED <<polls, sleeps, resultsReqs, startReqs, cancelReqs,
                        statusIds, resultsIds, outcome>>]_vars

\* A polling loop whose second status request failed.
C8_Witness ==
    /\ op = "poll_until_complete"
    /\ httpFailed
    /\ polls = 2
    /\ sleeps = 1
    /\ resultsReqs = 0
    /\ outcome = Raise("HTTPError", <<>>)

\* C9: scrape_and_wait sends one start request before any status request,
\* polls and fetches only the jobId of the start response, polls nothing
\* when the start failed, and on completion returns exactly the `results`
\* field of the results payload.
C9_StartThenPoll ==
    op = "scrape_and_wait" =>
        /\ startReqs <= 1
        /\ (started = None =>
                polls = 0 /\ statusIds = {} /\ resultsReqs = 0 /\ sleeps = 0)
        /\ (started # None =>
                /\ startReqs = 1
                /\ statusIds \subseteq {started.jobId}
                /\ resultsIds \subseteq {started.jobId})
        /\ ((pc = "done" /\ started = None) =>
                httpFailed /\ outcome.kind = "raise")
        /\ ((pc = "done" /\ Saw("completed") /\ ~httpFailed) =>
                /\ payload \in Payloads
                /\ outcome = Return(payload.results))
        /\ (outcome.kind = "return" =>
                payload \in Payloads /\ outcome.value = payload.results)

\* scrape_and_wait got job id "j2" from the start, slept at least once and
\* returned the two listings of the payload.
C9_Witness ==
    /\ op = "scrape_and_wait"
    /\ pc = "done"
    /\ job_id = "j2"
    /\ statusIds = {"j2"}
    /\ sleeps >= 1
    /\ payload \in Payloads
    /\ payload.total = 2
    /\ outcome = Return(List(<<"l1", "l2">>))

\* C10: status requests and sleeps alternate, starting with a status
\* request; every sleep is of `interval`; a status that does not end the
\* call is followed by a sleep before the timeout is checked again; with
\* interval > 0 at most ceil(timeout / interval) status requests are made,
\* and with timeout <= 0 none is made and TimeoutError is raised at once.
\* (Counts are compared while the counters have not saturated.)
C10_PollsAndSleepsAlternate ==
    Polling =>
        /\ (sleeps > 0 => sleepArg = interval)
        /\ sleeps <= polls
        /\ (polls < CountCap =>
                /\ (pc \in {"start", "loop", "poll", "sleeping"}
                        => sleeps = polls)
                /\ (pc \in {"sleep", "results"} => polls = sleeps + 1)
                /\ (pc = "done" => polls \in {sleeps, sleeps + 1}))
        /\ ((pc = "done" /\ TimedOut) => sleeps = polls)
        /\ ((interval > 0 /\ timeout > 0)
                => polls <= Ceil(timeout, interval))
        /\ ((op = "poll_until_complete" /\ timeout <= 0) =>
                /\ polls = 0
                /\ sleeps = 0
                /\ pc \in {"loop", "done"}
                /\ (pc = "done" => TimedOut))

\* A poll with interval 2 and timeout 3 that made ceil(3/2) = 2 status
\* requests and two sleeps before it timed out.
C10_Witness ==
    /\ op = "poll_until_complete"
    /\ interval = 2
    /\ timeout = 3
    /\ polls = 2
    /\ sleeps = 2
    /\ pc = "done"
    /\ TimedOut

=============================================================================
